---- MODULE Spec2Model ----
(***************************************************************************)
(* Model of freezeomatic/run.py: the reconciliation of a freezer manifest  *)
(* with its lock file (_update_lock_entries) and the resumable upload loop *)
(* (_upload, _upload_entry, _compress_tgz/_pack_tar, _upload_file,         *)
(* _dump_lock).  A behaviour is a sequence of runs of freeze() against one *)
(* lock file and one staging directory; a run may be interrupted between   *)
(* any two of its steps.                                                   *)
(***************************************************************************)
EXTENDS Integers, Sequences, FiniteSets, TLC

\* ------------------------------------------------------------------ bounds
MaxRows == 2        \* rows of a manifest
MaxRuns == 3        \* invocations of freeze() in one behaviour

\* --------------------------------------------------------------- constants
\* StorageClass: member names (equal to the member values)
StorageClass == {"STANDARD", "REDUCED_REDUNDANCY", "STANDARD_IA", "ONEZONE_IA",
                 "INTELLIGENT_TIERING", "GLACIER", "DEEP_ARCHIVE", "OUTPOSTS"}

DEFAULT_STORAGE == "DEEP_ARCHIVE"

\* LockStatus: member names
LockStatus == {"PENDING", "FREEZING", "FROZEN", "DEPRECATED"}

\* LockStatus: member name -> value written to the lock file
StatusValue(s) ==
    CASE s = "PENDING"    -> "00-pending"
      [] s = "FREEZING"   -> "10-freezing"
      [] s = "FROZEN"     -> "20-frozen"
      [] s = "DEPRECATED" -> "90-deprecated"

\* LockStatus(value): value read from the lock file -> member name
StatusOfValue(v) == CHOOSE s \in LockStatus : StatusValue(s) = v

UPLOADED_STATUSES == {"FROZEN", "DEPRECATED"}

\* ------------------------------------------------------------ environment
\* The local filesystem the runs see: plain files and directories.
Files == {"a.txt"}
Dirs  == {"logs"}

isfile(p) == p \in Files
isdir(p)  == p \in Dirs

\* str.endswith over the paths of the model: s = stem + suffix for some stem
Stems == {"archive/logs.", "archive/logs.tar.", "backup/a.", "backup/logs.",
          "backup/a.txt", "archive/logs.tar.gz", "backup/logs.zip", "archive/logs.tar"}

endswith(s, suffix) == \E stem \in Stems : stem \o suffix = s

\* os.path.basename over the paths of the model
BaseNames == {"a.txt", "logs"}
DirNames  == {"", "old/"}

basename(p) == CHOOSE b \in BaseNames : \E d \in DirNames : d \o b = p

\* The manifest rows a run may be given: source, target, storage class,
\* force marker.
FreezerRows ==
    { <<"a.txt", "backup/a.txt", "", "">>,
      <<"a.txt", "backup/a.txt", "", "force">>,
      <<"logs", "archive/logs.tar.gz", "", "">>,
      <<"logs", "archive/logs.tar.gz", "STANDARD", "force">>,
      <<"logs", "backup/logs.zip", "", "">> }

RECURSIVE SeqsUpTo(_, _)
SeqsUpTo(S, n) ==
    IF n = 0 THEN {<<>>}
    ELSE LET shorter == SeqsUpTo(S, n - 1)
         IN  shorter \cup { Append(q, x) : q \in {r \in shorter : Len(r) = n - 1}, x \in S }

\* Rows _read_freezer cannot parse: an unknown storage class, a missing field.
MalformedRows ==
    { <<"a.txt", "backup/a.txt", "COLD", "">>,
      <<"a.txt", "backup/a.txt", "">> }

Manifests == SeqsUpTo(FreezerRows \cup MalformedRows, MaxRows)

\* A status token LockStatus does not know, as an edit of the lock file made
\* outside the program may leave it.
UnknownStatus == "30-thawed"

\* ------------------------------------------------------------------ state
VARIABLES
    file,          \* rows of the lock file (<<>> when it does not exist)
    staged,        \* artifacts in tmp_dir: records [name, src, complete]
    pc,            \* position of the current run; "idle" between runs
    freezer,       \* manifest rows of the current (or last) run
    lock0,         \* lock entries as read by _read_lock at the start of the run
    lock_entries,  \* the list _upload works on (entries carry their identity)
    pending,       \* positions in lock_entries of the entries selected
    pos,           \* index in pending of the entry being processed
    local_file,    \* artifact name chosen by _upload_entry for a directory
    calls,         \* _upload_file calls of the current run, in order
    result,        \* result of the current (or last) run
    ended,         \* how the last run ended
    resumed,       \* how the previous run ended, when it had this same manifest
    runs           \* number of runs started

vars == <<file, staged, pc, freezer, lock0, lock_entries, pending, pos,
          local_file, calls, result, ended, resumed, runs>>

\* ------------------------------------------------------- pure functions
\* a variant of requires_upload that looks at force alone
requires_upload_forced(e) == e.force

\* requires_upload
requires_upload(e) == e.status \notin UPLOADED_STATUSES \/ e.force

\* deprecate: a copy (dataclasses.replace) with status DEPRECATED
deprecate(e) == [e EXCEPT !.status = "DEPRECATED"]

\* _read_freezer: rows of the manifest -> FreezerEntry records
_read_freezer(rows) ==
    [i \in 1..Len(rows) |->
        [source_path   |-> rows[i][1],
         target_path   |-> rows[i][2],
         storage_class |-> IF rows[i][3] # "" THEN rows[i][3] ELSE DEFAULT_STORAGE,
         force         |-> rows[i][4] = "force"]]

\* a variant of _read_freezer_raises that accepts any storage class name
_read_freezer_raises_lenient(rows) ==
    \E i \in 1..Len(rows) : Len(rows[i]) < 4

\* _read_freezer raises: IndexError on a row with fewer than four fields,
\* ValueError from StorageClass(row[2]) on an unknown name
_read_freezer_raises(rows) ==
    \E i \in 1..Len(rows) :
        \/ Len(rows[i]) < 4
        \/ rows[i][3] # "" /\ rows[i][3] \notin StorageClass

\* _read_lock raises: IndexError on a row with fewer than five fields,
\* ValueError from StorageClass(row[2]) or LockStatus(row[3])
_read_lock_raises(rows) ==
    \E i \in 1..Len(rows) :
        \/ Len(rows[i]) < 5
        \/ rows[i][3] \notin StorageClass
        \/ rows[i][4] \notin { StatusValue(st) : st \in LockStatus }

\* _read_lock: rows of the lock file -> FreezerLockEntry records; obj is the
\* identity of the Python object built for the row
_read_lock(rows) ==
    [i \in 1..Len(rows) |->
        [target_path   |-> rows[i][1],
         source_path   |-> rows[i][2],
         storage_class |-> rows[i][3],
         status        |-> StatusOfValue(rows[i][4]),
         force         |-> rows[i][5] = "force",
         obj           |-> i]]

\* _dump_lock: the rows written for a list of lock entries
_dump_lock(entries) ==
    [i \in 1..Len(entries) |->
        <<entries[i].target_path, entries[i].source_path,
          entries[i].storage_class, StatusValue(entries[i].status),
          IF entries[i].force THEN "force" ELSE "">>]

\* next(... for le in lock_entries if le.target_path == t): index of the
\* first match, 0 for None
FirstMatch(seq, t) ==
    IF \E j \in 1..Len(seq) : seq[j].target_path = t
    THEN CHOOSE j \in 1..Len(seq) :
            /\ seq[j].target_path = t
            /\ \A k \in 1..(j - 1) : seq[k].target_path # t
    ELSE 0

\* a variant of Unmatched that deprecates every lock entry, matched or not
Unmatched_all(freezer_entries, lock, j) ==
    [k \in 1..Len(lock) |->
        [deprecate(lock[k]) EXCEPT !.obj = Len(lock) + Len(freezer_entries) + k]]

\* a variant of Unmatched that keeps no lock entry the manifest lacks
Unmatched_dropped(freezer_entries, lock, j) == <<>>

RECURSIVE Unmatched(_, _, _)
\* second loop of _update_lock_entries: deprecated copies of the lock
\* entries no manifest row matches, in lock order, from index j on
Unmatched(freezer_entries, lock, j) ==
    IF j > Len(lock) THEN <<>>
    ELSE IF FirstMatch(freezer_entries, lock[j].target_path) = 0
         THEN <<[deprecate(lock[j]) EXCEPT
                    !.obj = Len(lock) + Len(freezer_entries) + j]>>
              \o Unmatched(freezer_entries, lock, j + 1)
         ELSE Unmatched(freezer_entries, lock, j + 1)

\* _update_lock_entries
_update_lock_entries(freezer_entries, lock) ==
    LET carried ==
          [i \in 1..Len(freezer_entries) |->
              LET fe == freezer_entries[i]
                  j  == FirstMatch(lock, fe.target_path)
              IN  IF j # 0 THEN lock[j]
                  ELSE [target_path   |-> fe.target_path,
                        source_path   |-> fe.source_path,
                        storage_class |-> fe.storage_class,
                        status        |-> "PENDING",
                        force         |-> fe.force,
                        obj           |-> Len(lock) + i]]
    IN  carried \o Unmatched(freezer_entries, lock, 1)

\* pending = [e for e in lock_entries if e.requires_upload()], as positions
RECURSIVE Selected(_, _)
Selected(entries, i) ==
    IF i > Len(entries) THEN <<>>
    ELSE IF requires_upload(entries[i])
         THEN <<i>> \o Selected(entries, i + 1)
         ELSE Selected(entries, i + 1)

\* a variant of SetStatus that assigns the status to every entry of the list
SetStatus_all(entries, i, s) ==
    [k \in 1..Len(entries) |-> [entries[k] EXCEPT !.status = s]]

\* entry.status = s: the assignment is seen through every position of the
\* list that holds the same object
SetStatus(entries, i, s) ==
    [k \in 1..Len(entries) |->
        IF entries[k].obj = entries[i].obj
        THEN [entries[k] EXCEPT !.status = s]
        ELSE entries[k]]

\* ------------------------------------------------------------------- Init
Init ==
    /\ file = <<>>
    /\ staged = {}
    /\ pc = "idle"
    /\ freezer = <<>>
    /\ lock0 = <<>>
    /\ lock_entries = <<>>
    /\ pending = <<>>
    /\ pos = 1
    /\ local_file = ""
    /\ calls = <<>>
    /\ result = "none"
    /\ ended = [how |-> "none", target |-> ""]
    /\ resumed = [how |-> "none", target |-> ""]
    /\ runs = 0

\* ------------------------------------------------------- steps of a run
\* the entry of the current iteration of the loop of _upload
Current == lock_entries[pending[pos]]

InFlight == pc \in {"entry", "packing", "upload"}

\* how a run that ends now is remembered: completed with every upload
\* succeeding, interrupted while an entry was persisted FREEZING, or other
Outcome(how) ==
    IF how = "0" /\ \A k \in 1..Len(calls) : calls[k].ok THEN
        [how |-> "clean", target |-> ""]
    ELSE IF how = "interrupted" /\ InFlight THEN
        [how |-> "interrupted", target |-> Current.target_path]
    ELSE
        [how |-> "other", target |-> ""]

NoOutcome == [how |-> "none", target |-> ""]

\* a variant of _upload_begin that leaves the status as it was
_upload_begin_unset(entries, i) == entries

\* entry.status = LockStatus.FREEZING
_upload_begin(entries, i) == SetStatus(entries, i, "FREEZING")

\* a variant of _upload_end that ignores what _upload_entry returned
_upload_end_always(entries, i, uploaded) == SetStatus(entries, i, "FROZEN")

\* if _upload_entry(...): entry.status = LockStatus.FROZEN
_upload_end(entries, i, uploaded) ==
    IF uploaded THEN SetStatus(entries, i, "FROZEN") ELSE entries

\* _upload_entry, plain-file branch: the result of _upload_file is dropped
\* and the function falls through to its final return False
_upload_entry_file(sent) == FALSE

\* _upload_entry, directory branch: return True when _upload_file did,
\* otherwise fall through to the final return False
_upload_entry_dir(sent) == sent

\* a variant of _upload_file without the except clause
_upload_file_uncaught(outcome) ==
    CASE outcome = "ok"          -> "True"
      [] outcome = "ClientError" -> "raise"

\* _upload_file: future.result() ends normally, or raises ClientError, which
\* is caught
_upload_file(outcome) ==
    CASE outcome = "ok"          -> "True"
      [] outcome = "ClientError" -> "False"

UploadOutcomes == {"ok", "ClientError"}

\* the artifact _compress_tgz / _pack_tar name for a directory entry, "" when
\* _upload_entry knows no packaging for the target
LocalName(e) ==
    IF endswith(e.target_path, "tar.gz") THEN basename(e.source_path) \o ".tar.gz"
    ELSE IF endswith(e.target_path, "tar") THEN basename(e.source_path) \o ".tar"
    ELSE ""

\* a variant of Staged that never finds the artifact
Staged_never(name) == FALSE

\* os.path.isfile(local_tgz) in tmp_dir
Staged(name) == \E a \in staged : a.name = name

\* freeze() up to and including the first _dump_lock of _upload
StartRun(m) ==
    /\ pc = "idle"
    /\ runs < MaxRuns
    /\ ~_read_freezer_raises(m)
    /\ ~_read_lock_raises(file)
    /\ LET read    == _read_lock(file)
           updated == _update_lock_entries(_read_freezer(m), read)
       IN  /\ lock0' = read
           /\ lock_entries' = updated
           /\ file' = _dump_lock(updated)
           /\ pending' = Selected(updated, 1)
    /\ freezer' = m
    /\ resumed' = IF m = freezer THEN ended ELSE NoOutcome
    /\ pos' = 1
    /\ pc' = "loop"
    /\ calls' = <<>>
    /\ local_file' = ""
    /\ result' = "running"
    /\ runs' = runs + 1
    /\ UNCHANGED <<staged, ended>>

\* freeze() when _read_freezer or _read_lock raises: the exception leaves
\* freeze before _upload is called
StartRunFails(m) ==
    /\ pc = "idle"
    /\ runs < MaxRuns
    /\ _read_freezer_raises(m) \/ _read_lock_raises(file)
    /\ pc' = "failed"
    /\ result' = IF _read_freezer_raises(m) THEN "ManifestFormatError"
                  ELSE "LedgerFormatError"
    /\ runs' = runs + 1
    /\ UNCHANGED <<file, staged, freezer, lock0, lock_entries, pending, pos,
                   local_file, calls, ended, resumed>>

\* between two runs the lock file is edited outside the program and a status
\* token is left that LockStatus does not know
Tamper ==
    /\ pc = "idle"
    /\ runs < MaxRuns
    /\ file # <<>>
    /\ ~_read_lock_raises(file)
    /\ file' = [file EXCEPT ![1] = [file[1] EXCEPT ![4] = UnknownStatus]]
    /\ UNCHANGED <<staged, pc, freezer, lock0, lock_entries, pending, pos,
                   local_file, calls, result, ended, resumed, runs>>

\* for entry in pending: entry.status = FREEZING; _dump_lock
BeginEntry ==
    /\ pc = "loop"
    /\ pos <= Len(pending)
    /\ lock_entries' = _upload_begin(lock_entries, pending[pos])
    /\ file' = _dump_lock(lock_entries')
    /\ pc' = "entry"
    /\ UNCHANGED <<staged, freezer, lock0, pending, pos, local_file, calls,
                   result, ended, resumed, runs>>

\* the rest of an iteration, after _upload_entry returned `uploaded`
EndEntry(uploaded) ==
    /\ lock_entries' = _upload_end(lock_entries, pending[pos], uploaded)
    /\ file' = _dump_lock(lock_entries')
    /\ pos' = pos + 1
    /\ pc' = "loop"

\* an exception leaves _upload and freeze
Raise(what) ==
    /\ pc' = "failed"
    /\ result' = what
    /\ UNCHANGED <<file, lock_entries, pos>>

Call(e, local, sent) ==
    [at |-> pending[pos], source |-> e.source_path, local |-> local,
     target |-> e.target_path, storage |-> e.storage_class, ok |-> sent = "True"]

\* _upload_entry on a plain file
UploadPlainFile(outcome) ==
    /\ pc = "entry"
    /\ isfile(Current.source_path)
    /\ LET sent == _upload_file(outcome)
       IN  /\ calls' = Append(calls, Call(Current, Current.source_path, sent))
           /\ IF sent = "raise"
              THEN Raise("ClientError")
              ELSE EndEntry(_upload_entry_file(sent = "True")) /\ UNCHANGED result
    /\ UNCHANGED <<staged, freezer, lock0, pending, local_file, ended, resumed, runs>>

\* _upload_entry on a directory: _compress_tgz / _pack_tar up to the start
\* of the packaging, or the ValueError for an unknown extension
Package ==
    /\ pc = "entry"
    /\ ~isfile(Current.source_path)
    /\ isdir(Current.source_path)
    /\ LocalName(Current) # ""
    /\ local_file' = LocalName(Current)
    /\ IF Staged(LocalName(Current))
       THEN /\ pc' = "upload"
            /\ UNCHANGED staged
       ELSE /\ pc' = "packing"
            /\ staged' = staged \cup {[name |-> LocalName(Current),
                                       src |-> Current.source_path,
                                       complete |-> FALSE]}
    /\ UNCHANGED <<file, freezer, lock0, lock_entries, pending, pos, calls,
                   result, ended, resumed, runs>>

\* the archive is written to its end
PackDone ==
    /\ pc = "packing"
    /\ staged' = { IF a.name = local_file THEN [a EXCEPT !.complete = TRUE] ELSE a
                   : a \in staged }
    /\ pc' = "upload"
    /\ UNCHANGED <<file, freezer, lock0, lock_entries, pending, pos, local_file,
                   calls, result, ended, resumed, runs>>

\* tarfile / subprocess.run(check=True) raises: nothing catches it
PackFail ==
    /\ pc = "packing"
    /\ Raise("PackagingError")
    /\ UNCHANGED <<staged, freezer, lock0, pending, local_file, calls, ended, resumed, runs>>

\* raise ValueError: a directory with an unknown extension, or a source that
\* is neither a file nor a directory
Unsupported ==
    /\ pc = "entry"
    /\ ~isfile(Current.source_path)
    /\ ~isdir(Current.source_path) \/ LocalName(Current) = ""
    /\ Raise("ValueError")
    /\ UNCHANGED <<staged, freezer, lock0, pending, local_file, calls, ended, resumed, runs>>

\* _upload_file(local_file, ...) for a directory entry
UploadArtifact(outcome) ==
    /\ pc = "upload"
    /\ LET sent == _upload_file(outcome)
       IN  /\ calls' = Append(calls, Call(Current, local_file, sent))
           /\ IF sent = "raise"
              THEN Raise("ClientError")
              ELSE EndEntry(_upload_entry_dir(sent = "True")) /\ UNCHANGED result
    /\ UNCHANGED <<staged, freezer, lock0, pending, local_file, ended, resumed, runs>>

\* the loop of _upload is over: freeze returns 0
Finish ==
    /\ pc = "loop"
    /\ pos > Len(pending)
    /\ pc' = "done"
    /\ result' = "0"
    /\ UNCHANGED <<file, staged, freezer, lock0, lock_entries, pending, pos,
                   local_file, calls, ended, resumed, runs>>

\* what is left of a run once its process is gone: the lock file, tmp_dir,
\* and the memory of how it ended
Gone(how) ==
    /\ pc' = "idle"
    /\ ended' = Outcome(how)
    /\ lock0' = <<>>
    /\ lock_entries' = <<>>
    /\ pending' = <<>>
    /\ pos' = 1
    /\ local_file' = ""
    /\ calls' = <<>>
    /\ resumed' = NoOutcome
    /\ UNCHANGED <<file, staged, freezer, runs>>

\* the process exits, with 0 or with the exception
Exit ==
    /\ pc \in {"done", "failed"}
    /\ Gone(result)
    /\ UNCHANGED result

\* the process is interrupted between two steps of a run
Interrupt ==
    /\ pc \in {"loop", "entry", "packing", "upload"}
    /\ Gone("interrupted")
    /\ result' = "interrupted"

Next ==
    \/ \E m \in Manifests : StartRun(m)
    \/ \E m \in Manifests : StartRunFails(m)
    \/ Tamper
    \/ BeginEntry
    \/ \E outcome \in UploadOutcomes : UploadPlainFile(outcome)
    \/ Package
    \/ PackDone
    \/ PackFail
    \/ Unsupported
    \/ \E outcome \in UploadOutcomes : UploadArtifact(outcome)
    \/ Finish
    \/ Exit
    \/ Interrupt

Spec == Init /\ [][Next]_vars

TypeOK ==
    /\ pc \in {"idle", "loop", "entry", "packing", "upload", "done", "failed"}
    /\ runs \in 0..MaxRuns

\* ============================================================== claims
\* helpers of the statements below
FROZEN_CODE     == "20-frozen"
FREEZING_CODE   == "10-freezing"
DEPRECATED_CODE == "90-deprecated"

RunEnded == pc = "done"

\* a run is on and has read its manifest and its lock file
Working ==
    /\ pc # "idle"
    /\ result \notin {"ManifestFormatError", "LedgerFormatError"}

TargetsOf(seq) == { seq[i].target_path : i \in 1..Len(seq) }

RowsOf(t) == { i \in 1..Len(file) : file[i][1] = t }

CallsFor(t) == { k \in 1..Len(calls) : calls[k].target = t }

SelectedTarget(t) ==
    \E k \in 1..Len(pending) : lock_entries[pending[k]].target_path = t

\* C1: every entry whose upload succeeded in a run is FROZEN in the lock file
\* when the run ends, whether its source is a plain file or a directory.
C1_UploadedEndsFrozen ==
    RunEnded =>
        \A k \in 1..Len(calls) :
            calls[k].ok => file[calls[k].at][4] = FROZEN_CODE

\* C2: a run started with the manifest and the lock file of a completed run
\* whose uploads all succeeded, the manifest forcing nothing, issues no
\* upload call.
C2_SecondRunUploadsNothing ==
    ( /\ resumed.how = "clean"
      /\ \A i \in 1..Len(freezer) : freezer[i][4] # "force" )
    => calls = <<>>

\* C3: a manifest row with force whose lock record is FROZEN at the start of
\* the run is selected, uploaded, and FROZEN again at the end of the run when
\* its uploads succeeded, whatever force value the lock record carries.
C3_ForceOverride ==
    \A i \in 1..Len(freezer) :
        LET t == freezer[i][2]
            j == FirstMatch(lock0, t)
        IN  ( /\ runs > 0
              /\ freezer[i][4] = "force"
              /\ j # 0
              /\ lock0[j].status = "FROZEN" )
            => /\ SelectedTarget(t)
               /\ RunEnded =>
                    /\ CallsFor(t) # {}
                    /\ (\A k \in CallsFor(t) : calls[k].ok)
                         => \A r \in RowsOf(t) : file[r][4] = FROZEN_CODE

\* C4: a lock entry whose target is absent from the manifest gets no upload
\* call, and its row is DEPRECATED in the lock file from the first write of
\* the run on.
C4_DeprecationRecordOnly ==
    \A j \in 1..Len(lock0) :
        LET t == lock0[j].target_path
        IN  ( /\ runs > 0
              /\ t \notin TargetsOf(_read_freezer(freezer)) )
            => /\ CallsFor(t) = {}
               /\ RowsOf(t) # {}
               /\ \A r \in RowsOf(t) : file[r][4] = DEPRECATED_CODE

\* an entry without the identity the model gives the Python object
Fields(e) == [f \in {"target_path", "source_path", "storage_class", "status", "force"}
                 |-> e[f]]

\* C5: the reconciled list holds exactly one entry per target of the manifest
\* (the carried lock entry, else a new PENDING one) and exactly one DEPRECATED
\* entry per lock target the manifest lacks; its length is the number of
\* distinct targets of M union (L minus M).
C5_Convergence ==
    LET M == _read_freezer(freezer)
        L == lock0
        R == _update_lock_entries(M, L)
        At(t) == { i \in 1..Len(R) : R[i].target_path = t }
    IN  /\ \A t \in TargetsOf(M) :
              /\ Cardinality(At(t)) = 1
              /\ \A i \in At(t) :
                    IF t \in TargetsOf(L)
                    THEN Fields(R[i]) = Fields(L[FirstMatch(L, t)])
                    ELSE R[i].status = "PENDING"
        /\ \A t \in TargetsOf(L) \ TargetsOf(M) :
              /\ Cardinality(At(t)) = 1
              /\ \A i \in At(t) : R[i].status = "DEPRECATED"
        /\ Len(R) = Cardinality(TargetsOf(M) \cup (TargetsOf(L) \ TargetsOf(M)))

\* C6: no two rows of the lock file have the same target_path.
C6_KeyUnique ==
    \A i, j \in 1..Len(file) : i # j => file[i][1] # file[j][1]

\* C7: the run that follows, with the same manifest, a run interrupted while
\* an entry was persisted FREEZING finds the entry FREEZING, selects it, and
\* ends, when its uploads succeeded, with exactly one row for the target,
\* FROZEN.
C7_CrashResume ==
    resumed.how = "interrupted" =>
        LET t == resumed.target
            j == FirstMatch(lock0, t)
        IN  /\ j # 0
            /\ lock0[j].status = "FREEZING"
            /\ SelectedTarget(t)
            /\ ( /\ RunEnded
                 /\ CallsFor(t) # {}
                 /\ \A k \in CallsFor(t) : calls[k].ok )
               => /\ Cardinality(RowsOf(t)) = 1
                  /\ \A r \in RowsOf(t) : file[r][4] = FROZEN_CODE

\* the upload calls of this run made for the object held at position i
CallsOn(i) ==
    { k \in 1..Len(calls) : lock_entries[calls[k].at].obj = lock_entries[i].obj }

Latest(K) == CHOOSE k \in K : \A l \in K : l <= k

\* the loop has set the object at position i to FREEZING in this run
Begun(i) ==
    \E k \in 1..Len(pending) :
        /\ k < pos \/ (k = pos /\ InFlight)
        /\ lock_entries[pending[k]].obj = lock_entries[i].obj

WasFrozen(t) ==
    \E j \in 1..Len(lock0) : lock0[j].target_path = t /\ lock0[j].status = "FROZEN"

\* C8 as stated: during a run, a row is FROZEN in the lock file only if it was FROZEN when
\* the run read the file and was not selected, or an upload for the entry
\* succeeded earlier in the run.
C8_FrozenOnlyUnselectedOrUploaded ==
    \A i \in 1..Len(file) :
        (Working /\ file[i][4] = FROZEN_CODE) =>
            \/ WasFrozen(file[i][1]) /\ \A k \in 1..Len(pending) : pending[k] # i
            \/ \E k \in CallsOn(i) : calls[k].ok

\* C8, amended: during a run, a row is FROZEN in the lock file only if the last upload made
\* for the entry in this run succeeded, or no upload was made for it, it was
\* FROZEN when the run read the file and the loop has not reached it (it is
\* not selected, or is a forced entry still waiting for its turn).
C8_FrozenMeansConfirmed ==
    \A i \in 1..Len(file) :
        (Working /\ file[i][4] = FROZEN_CODE) =>
            IF CallsOn(i) # {}
            THEN calls[Latest(CallsOn(i))].ok
            ELSE WasFrozen(file[i][1]) /\ ~Begun(i)

C8_Witness ==
    /\ RunEnded
    /\ \E i \in 1..Len(file) :
          /\ file[i][4] = FROZEN_CODE
          /\ CallsOn(i) # {}
    /\ \E k \in 1..Len(calls) :
          /\ ~calls[k].ok
          /\ file[calls[k].at][4] = FREEZING_CODE

\* a step in which _upload_file is called and fails
FailedUploadStep ==
    /\ Len(calls') = Len(calls) + 1
    /\ ~calls'[Len(calls')].ok

Shows(entries) ==
    /\ Len(file) = Len(entries)
    /\ \A i \in 1..Len(entries) :
          /\ file[i][1] = entries[i].target_path
          /\ file[i][2] = entries[i].source_path
          /\ file[i][3] = entries[i].storage_class
          /\ file[i][4] = StatusValue(entries[i].status)
          /\ (file[i][5] = "force") = entries[i].force

TargetsInFile == { file[i][1] : i \in 1..Len(file) }

\* C11: every target_path of the lock file is still in the lock file after
\* any later write; in particular the target of a DEPRECATED row stays, also
\* when the manifest lists it again.
C11_AuditTrail ==
    [][ /\ TargetsInFile \subseteq TargetsInFile'
        /\ \A i \in 1..Len(file) :
              file[i][4] = DEPRECATED_CODE =>
                  \E j \in 1..Len(file') : file'[j][1] = file[i][1] ]_vars

C11_Witness ==
    /\ pc = "done"
    /\ \E j \in 1..Len(lock0) :
          /\ lock0[j].status = "DEPRECATED"
          /\ lock0[j].target_path \in TargetsOf(_read_freezer(freezer))
          /\ lock0[j].target_path \in TargetsInFile
    /\ \E j \in 1..Len(lock0) :
          /\ lock0[j].target_path \notin TargetsOf(_read_freezer(freezer))
          /\ lock0[j].target_path \in TargetsInFile

\* C12: a manifest row whose lock record is DEPRECATED gets a fresh PENDING
\* entry in the reconciled list, which is selected for upload in that run.
C12_ReaddedIsPending ==
    LET M == _read_freezer(freezer)
        R == _update_lock_entries(M, lock0)
    IN  \A i \in 1..Len(M) :
            LET t == M[i].target_path
                j == FirstMatch(lock0, t)
            IN  (j # 0 /\ lock0[j].status = "DEPRECATED") =>
                    /\ \E r \in 1..Len(R) :
                          R[r].target_path = t /\ R[r].status = "PENDING"
                    /\ SelectedTarget(t)

\* C13: a failure of the archive creation does not end the run: no run ends
\* on a packaging error, and the loop goes on with the next selected entry.
C13_PackagingFailureNonFatal ==
    result # "PackagingError"

\* the rows of a manifest can be parsed: four fields, a known storage class
\* name or none
WellFormedManifest(rows) ==
    \A i \in 1..Len(rows) :
        /\ Len(rows[i]) = 4
        /\ rows[i][3] \in StorageClass \cup {""}

\* the rows of a lock file can be parsed: five fields, a known storage class
\* name and a known status token
WellFormedLock(rows) ==
    \A i \in 1..Len(rows) :
        /\ Len(rows[i]) = 5
        /\ rows[i][3] \in StorageClass
        /\ rows[i][4] \in {"00-pending", "10-freezing", "20-frozen", "90-deprecated"}

PENDING_CODE == "00-pending"

LiveCodes == {PENDING_CODE, FREEZING_CODE, FROZEN_CODE}

\* the status changes C15 allows for a row whose force marker is `marker`
Advances(old, new, marker) ==
    \/ old = new
    \/ old = PENDING_CODE /\ new = FREEZING_CODE
    \/ old = FREEZING_CODE /\ new = FROZEN_CODE
    \/ old = FROZEN_CODE /\ new = FREEZING_CODE /\ marker = "force"

\* C15: among PENDING, FREEZING and FROZEN the status written for an entry
\* only advances, but for FROZEN to FREEZING on an entry with force; within a
\* run rows are compared by position, across the first write of a run by
\* target_path.
C15_StatusMonotone ==
    [][ IF pc # "idle"
        THEN \A i \in 1..Len(file') :
                (i <= Len(file) /\ file[i][4] \in LiveCodes /\ file'[i][4] \in LiveCodes)
                    => Advances(file[i][4], file'[i][4], file[i][5])
        ELSE \A i \in 1..Len(file') :
                (file'[i][4] \in LiveCodes /\ file'[i][1] \in TargetsInFile)
                    => \E j \in 1..Len(file) :
                          /\ file[j][1] = file'[i][1]
                          /\ file[j][4] \in LiveCodes
                                => Advances(file[j][4], file'[i][4], file[j][5]) ]_vars

\* C16: the reconciled list starts with one entry per manifest row, in
\* manifest order, followed by the DEPRECATED copies of the lock entries no
\* manifest row matches, in lock order; no matched lock entry is in that
\* second part.
C16_ReconcilerOrder ==
    LET M == _read_freezer(freezer)
        R == _update_lock_entries(M, lock0)
        Lacks(e) == e.target_path \notin TargetsOf(M)
        U == SelectSeq(lock0, Lacks)
    IN  /\ Len(R) = Len(M) + Len(U)
        /\ \A i \in 1..Len(M) : R[i].target_path = M[i].target_path
        /\ \A k \in 1..Len(U) :
              /\ R[Len(M) + k].target_path = U[k].target_path
              /\ R[Len(M) + k].source_path = U[k].source_path
              /\ R[Len(M) + k].status = "DEPRECATED"
              /\ R[Len(M) + k].target_path \notin TargetsOf(M)

C16_Witness ==
    /\ pc = "loop"
    /\ pos = 1
    /\ Len(freezer) = 1
    /\ Len(lock0) = 3
    /\ \E j \in 1..3 : lock0[j].target_path = freezer[1][2]
    /\ Cardinality(TargetsOf(lock0)) = 3
    /\ file[2][1] # file[3][1]

\* the artifact names _upload_entry may derive for a directory source
DerivedNames(source) ==
    {basename(source) \o ".tar.gz", basename(source) \o ".tar"}

\* C17: a directory entry is packaged only when tmp_dir holds no artifact of
\* the derived name; an artifact found there is uploaded as it is and tmp_dir
\* is left alone, whatever the entry's force flag; an entry with force is
\* uploaded in every run that completes.
C17_ArtifactReuse ==
    /\ [][(pc = "entry" /\ pc' \in {"packing", "upload"}) =>
            /\ local_file' \in DerivedNames(Current.source_path)
            /\ IF \E a \in staged : a.name = local_file'
               THEN pc' = "upload" /\ staged' = staged
               ELSE pc' = "packing" /\ staged' # staged]_vars
    /\ [][staged' # staged => pc \in {"entry", "packing"}]_vars
    /\ [](RunEnded =>
            \A i \in 1..Len(lock_entries) :
                (lock_entries[i].force /\ isdir(lock_entries[i].source_path))
                    => \E k \in 1..Len(calls) :
                          /\ calls[k].at = i
                          /\ calls[k].local \in DerivedNames(lock_entries[i].source_path))

C17_Witness ==
    /\ pc = "upload"
    /\ Current.force
    /\ resumed.how = "clean"
    /\ \E a \in staged : a.name = local_file /\ a.complete

\* C18: when a run returns 0 no row of the lock file is PENDING: every row
\* is FREEZING, FROZEN or DEPRECATED.
C18_NoPendingLeft ==
    RunEnded => \A i \in 1..Len(file) :
        /\ file[i][4] # PENDING_CODE
        /\ file[i][4] \in {FREEZING_CODE, FROZEN_CODE, DEPRECATED_CODE}

C18_Witness ==
    /\ RunEnded
    /\ Len(file) >= 2
    /\ \E j \in 1..Len(lock0) : lock0[j].status = "PENDING"
    /\ \E k \in 1..Len(calls) : ~calls[k].ok
    /\ \E i \in 1..Len(file) : file[i][4] = DEPRECATED_CODE

\* C19: from the first write of a run on, the lock file has the rows of the
\* reconciled list, in its order, with their target, source, storage class
\* and force; the rows of entries not selected keep their status too.
C19_Frame ==
    Working =>
        LET R == _update_lock_entries(_read_freezer(freezer), lock0)
        IN  /\ Len(file) = Len(R)
            /\ \A i \in 1..Len(R) :
                  /\ file[i][1] = R[i].target_path
                  /\ file[i][2] = R[i].source_path
                  /\ file[i][3] = R[i].storage_class
                  /\ (file[i][5] = "force") = R[i].force
                  /\ (R[i].status \in {"FROZEN", "DEPRECATED"} /\ ~R[i].force)
                        => file[i][4] = StatusValue(R[i].status)

C19_Witness ==
    /\ RunEnded
    /\ \E i \in 1..Len(file) :
          /\ file[i][4] = DEPRECATED_CODE
          /\ \A k \in 1..Len(pending) : pending[k] # i
    /\ \E k \in 1..Len(calls) :
          /\ calls[k].ok
          /\ file[calls[k].at][4] = FROZEN_CODE

\* C20: a directory entry is written FROZEN only after the upload of an
\* artifact that is a complete package of the entry's own source directory.
C20_ArtifactProvenance ==
    \A k \in 1..Len(calls) :
        ( /\ Working
          /\ calls[k].ok
          /\ isdir(calls[k].source)
          /\ file[calls[k].at][4] = FROZEN_CODE )
        => \E a \in staged :
              /\ a.name = calls[k].local
              /\ a.complete
              /\ a.src = calls[k].source

====
